---- MODULE Spec2Model ----
(***************************************************************************)
(* A model of the Smartcar node SDK entry module (src/index.js): the       *)
(* compatibility query-parameter builder, the process-wide API version,    *)
(* the getUser / getVehicles / getCompatibility requests, the webhook      *)
(* signature helper, and the util.get / util.action request builders that  *)
(* src/test/test_util.js exercises.                                        *)
(*                                                                         *)
(* JavaScript values are modelled as follows.  A string is a TLA+ string.  *)
(* An object is a function whose DOMAIN is the set of its own keys, so     *)
(* options.hasOwnProperty(k) is  k \in DOMAIN options  and a key that is   *)
(* not given is simply not in the domain.  A string is truthy iff it is    *)
(* not "".                                                                 *)
(***************************************************************************)
EXTENDS Integers, Sequences, FiniteSets, TLC

VARIABLES
    config,     \* the process-wide config singleton: [api, version]
    env,        \* process.env: a function from the variables that are set
    inflight,   \* the requests dispatched and not yet settled, in call order
    last        \* the last call of a synchronous helper: inputs and result

vars == <<config, env, inflight, last>>

-----------------------------------------------------------------------------
(* Bounds of the model *)

MaxScope == 2       \* longest scope list drawn
MaxCalls == 2       \* requests in flight at one time
MaxBody == 2        \* most properties of a webhook body

-----------------------------------------------------------------------------
(* JavaScript helpers *)

\* The object {} .
EmptyObject == <<>>

\* The objects that either lack key k or hold one of the values S under it.
OptionalKey(k, S) == {EmptyObject} \cup {k :> v : v \in S}

\* if (s) ... for a string s.
Truthy(s) == s # ""

\* options.k used as a condition, for a string-valued key:
\* a key that is not given reads as undefined, which is falsy.
Given(options, k) == k \in DOMAIN options /\ Truthy(options[k])

\* The sequences over S of length at most n.
SeqsUpTo(S, n) == UNION {[1..k -> S] : k \in 0..n}

\* Array.prototype.join(sep) on an array of strings.
RECURSIVE Join(_, _)
Join(list, sep) ==
    IF Len(list) = 0 THEN ""
    ELSE IF Len(list) = 1 THEN list[1]
    ELSE list[1] \o sep \o Join(Tail(list), sep)

-----------------------------------------------------------------------------
(* lib/util.getFlagsString: key1:value1,key2:value2,... ; a flag value is  *)
(* a string [str |-> s] or a boolean [bool |-> b], a boolean rendering as  *)
(* "true" or "false".  A flags object is the sequence of its entries in    *)
(* insertion order.                                                        *)

FlagValueString(v) ==
    IF "bool" \in DOMAIN v THEN (IF v.bool THEN "true" ELSE "false") ELSE v.str

getFlagsString(flags) ==
    Join([i \in 1..Len(flags) |-> flags[i].key \o ":" \o FlagValueString(flags[i].value)], ",")

-----------------------------------------------------------------------------
(* buildQueryParams(vin, scope, country, options) *)

\* scope.join() with no argument separates with commas.
scopeStringCommas(scope) == Join(scope, ",")

\* scope.join(' ')
scopeString(scope) == Join(scope, " ")

\* if (options.flags): an object is truthy, the empty one too.
withFlags(parameters, options) ==
    IF "flags" \in DOMAIN options
    THEN ("flags" :> getFlagsString(options.flags)) @@ parameters
    ELSE parameters

\* if (options.testMode) in place of the hasOwnProperty test.
withTestModeIfTruthy(parameters, options) ==
    IF "testMode" \in DOMAIN options /\ options.testMode
    THEN ("mode" :> "test") @@ parameters
    ELSE parameters

\* if (options.hasOwnProperty('testMode'))
withTestMode(parameters, options) ==
    IF "testMode" \in DOMAIN options
    THEN ("mode" :> (IF options.testMode THEN "test" ELSE "live")) @@ parameters
    ELSE parameters

\* The level set, mode set only where testMode has not set it already.
withCompatibilityLevelKeepingMode(parameters, options) ==
    IF Given(options, "testModeCompatibilityLevel")
    THEN parameters
         @@ ("test_mode_compatibility_level" :> options.testModeCompatibilityLevel)
         @@ ("mode" :> "test")
    ELSE parameters

\* if (options.testModeCompatibilityLevel)
withCompatibilityLevel(parameters, options) ==
    IF Given(options, "testModeCompatibilityLevel")
    THEN ("mode" :> "test")
         @@ ("test_mode_compatibility_level" :> options.testModeCompatibilityLevel)
         @@ parameters
    ELSE parameters

buildQueryParams(vin, scope, country, options) ==
    LET parameters == [vin |-> vin, scope |-> scopeString(scope), country |-> country]
    IN  withCompatibilityLevel(
            withTestMode(withFlags(parameters, options), options), options)

-----------------------------------------------------------------------------
(* Inputs *)

Vins == {"1FTFW1E5XKD000001"}
ScopeTokens == {"read_vin", "read_odometer"}
Scopes == SeqsUpTo(ScopeTokens, MaxScope)
CountryCodes == {"US", "DE"}
CompatibilityLevels == {"", "compatible", "incompatible"}
FlagObjects ==
    { <<>>,
      <<[key |-> "country", value |-> [str |-> "DE"]]>>,
      <<[key |-> "flag", value |-> [bool |-> TRUE]],
        [key |-> "color", value |-> [str |-> "blue"]]>> }

ModeOptions ==
    { a @@ b @@ c :
        a \in OptionalKey("testMode", BOOLEAN),
        b \in OptionalKey("testModeCompatibilityLevel", CompatibilityLevels),
        c \in OptionalKey("flags", FlagObjects) }

NoCall == [op |-> "none"]

-----------------------------------------------------------------------------
(* The parameter builder on its own *)

InitIdle ==
    /\ config = [api |-> "https://api.smartcar.com", version |-> "2.0"]
    /\ env = EmptyObject
    /\ inflight = <<>>
    /\ last = NoCall

BuildQueryParamsCall ==
    \E vin \in Vins, scope \in Scopes, country \in CountryCodes, options \in ModeOptions :
        /\ last' = [op |-> "buildQueryParams", vin |-> vin, scope |-> scope,
                    country |-> country, options |-> options,
                    parameters |-> buildQueryParams(vin, scope, country, options)]
        /\ UNCHANGED <<config, env, inflight>>

NextParams == BuildQueryParamsCall

SpecParams == InitIdle /\ [][NextParams]_vars

-----------------------------------------------------------------------------
(* Properties of the parameter builder *)

\* String.prototype.split(" "): the pieces of s between single spaces.
RECURSIVE SplitSpaces(_)
SplitSpaces(s) ==
    IF Len(s) = 0 THEN <<"">>
    ELSE LET rest == SplitSpaces(Tail(s))
         IN  IF Head(s) = " "
             THEN <<"">> \o rest
             ELSE <<Head(s) \o rest[1]>> \o Tail(rest)

Built == last.op = "buildQueryParams"

\* C1 as stated: whenever the options bag has the key testModeCompatibilityLevel,
\* whatever its value, mode is "test" and the level is passed through unchanged
\* as test_mode_compatibility_level.
C1_LevelPresentForcesTest ==
    (Built /\ "testModeCompatibilityLevel" \in DOMAIN last.options) =>
        /\ "mode" \in DOMAIN last.parameters
        /\ last.parameters.mode = "test"
        /\ "test_mode_compatibility_level" \in DOMAIN last.parameters
        /\ last.parameters.test_mode_compatibility_level
               = last.options.testModeCompatibilityLevel

\* C1 amended: whenever the options bag has a non-empty (truthy)
\* testModeCompatibilityLevel, mode is "test" whatever testMode is (true, false
\* or absent), and the level is passed through unchanged as
\* test_mode_compatibility_level.
C1_TruthyLevelForcesTest ==
    (Built /\ "testModeCompatibilityLevel" \in DOMAIN last.options
           /\ last.options.testModeCompatibilityLevel # "") =>
        /\ "mode" \in DOMAIN last.parameters
        /\ last.parameters.mode = "test"
        /\ "test_mode_compatibility_level" \in DOMAIN last.parameters
        /\ last.parameters.test_mode_compatibility_level
               = last.options.testModeCompatibilityLevel

\* A level given together with testMode:false, and the result built.
C1_Witness ==
    /\ Built
    /\ "testMode" \in DOMAIN last.options
    /\ last.options.testMode = FALSE
    /\ "testModeCompatibilityLevel" \in DOMAIN last.options
    /\ last.options.testModeCompatibilityLevel = "incompatible"
    /\ last.parameters.mode = "test"
    /\ last.parameters.test_mode_compatibility_level = "incompatible"

\* C2: with a testMode key and no testModeCompatibilityLevel key, mode is "test"
\* for testMode true and "live" for testMode false; with neither key the result
\* has no mode parameter.
C2_ModeFollowsTestMode ==
    (Built /\ "testModeCompatibilityLevel" \notin DOMAIN last.options) =>
        IF "testMode" \in DOMAIN last.options
        THEN /\ "mode" \in DOMAIN last.parameters
             /\ last.parameters.mode = (IF last.options.testMode THEN "test" ELSE "live")
        ELSE "mode" \notin DOMAIN last.parameters

\* testMode:false alone, and the result says "live".
C2_Witness ==
    /\ Built
    /\ DOMAIN last.options = {"testMode"}
    /\ last.options.testMode = FALSE
    /\ last.parameters.mode = "live"

\* C3: the scope parameter is always there; split at its spaces it gives back
\* the scope tokens in input order (so consecutive tokens are separated by
\* exactly one space), and for the empty list it is the empty string.
C3_ScopeSpaceJoined ==
    Built =>
        /\ "scope" \in DOMAIN last.parameters
        /\ IF Len(last.scope) = 0
           THEN last.parameters.scope = ""
           ELSE SplitSpaces(last.parameters.scope) = last.scope

\* Two different tokens joined, in their input order.
C3_Witness ==
    /\ Built
    /\ last.scope = <<"read_odometer", "read_vin">>
    /\ last.parameters.scope = "read_odometer read_vin"

-----------------------------------------------------------------------------
(* The webhook signature helper.                                           *)
(*                                                                         *)
(* crypto's HMAC-SHA256 is modelled by a keyed digest of the same shape    *)
(* that is 8 bits wide instead of 256: the key and then the message are    *)
(* folded character by character into one byte, which is rendered as two   *)
(* lower-case hexadecimal digits, as digest('hex') renders its bytes.      *)

Alphabet == "abcdefghijklmnopqrstuvwxyz0123456789{}\":,-_ ABCDEF"
HexDigits == "0123456789abcdef"
UpperHexDigits == "0123456789ABCDEF"

CharAt(s, i) == SubSeq(s, i, i)

CharCode(c) == CHOOSE i \in 1..Len(Alphabet) : CharAt(Alphabet, i) = c

RECURSIVE Fold(_, _)
Fold(h, s) ==
    IF Len(s) = 0 THEN h
    ELSE Fold((h * 31 + CharCode(Head(s))) % 256, Tail(s))

hashChallenge(amt, challenge) ==
    LET key == Fold(7, amt)
        byte == Fold(key, challenge)
    IN  CharAt(HexDigits, (byte \div 16) + 1) \o CharAt(HexDigits, (byte % 16) + 1)

\* JSON.stringify of a property value: a number [num |-> n], a string
\* [str |-> s] or null.
JsonValueString(v) ==
    IF "num" \in DOMAIN v THEN ToString(v.num)
    ELSE IF "str" \in DOMAIN v THEN "\"" \o v.str \o "\""
    ELSE "null"

\* JSON.stringify of an object, given as the sequence of its properties in
\* insertion order.
JSONstringify(body) ==
    "{" \o Join([i \in 1..Len(body) |->
                    "\"" \o body[i].key \o "\":" \o JsonValueString(body[i].value)], ",")
        \o "}"

\* s with its hexadecimal letters in upper case.
RECURSIVE UpperHex(_)
UpperHex(s) ==
    IF Len(s) = 0 THEN ""
    ELSE LET c == Head(s)
             up == IF \E i \in 1..16 : CharAt(HexDigits, i) = c
                   THEN CharAt(UpperHexDigits, CHOOSE i \in 1..16 : CharAt(HexDigits, i) = c)
                   ELSE c
         IN  up \o UpperHex(Tail(s))

\* The digest and the signature compared without regard to letter case.
verifyPayloadIgnoringCase(amt, signature, body) ==
    UpperHex(hashChallenge(amt, JSONstringify(body))) = UpperHex(signature)

verifyPayload(amt, signature, body) ==
    hashChallenge(amt, JSONstringify(body)) = signature

Amts == {"amt-1", "amt-2"}
BodyProperties ==
    { [key |-> "id", value |-> [str |-> "v1"]],
      [key |-> "km", value |-> [num |-> 104]],
      [key |-> "data", value |-> [null |-> TRUE]] }
\* Objects: no key twice.
Bodies ==
    { b \in SeqsUpTo(BodyProperties, MaxBody) :
        \A i, j \in 1..Len(b) : b[i].key = b[j].key => i = j }

\* The signatures a sender may present: every digest of the model, the same
\* digests in upper case, and two strings that are no digest.
Digests == {hashChallenge(a, JSONstringify(b)) : a \in Amts, b \in Bodies}
Signatures == Digests \cup {UpperHex(d) : d \in Digests} \cup {"", "signature"}

\* One webhook delivery is examined per behaviour.
VerifyPayloadCall ==
    \E amt \in Amts, signature \in Signatures, body \in Bodies :
        /\ last = NoCall
        /\ last' = [op |-> "verifyPayload", amt |-> amt, signature |-> signature,
                    body |-> body, result |-> verifyPayload(amt, signature, body)]
        /\ UNCHANGED <<config, env, inflight>>

HashChallengeCall ==
    \E amt \in Amts, body \in Bodies :
        /\ last = NoCall
        /\ last' = [op |-> "hashChallenge", amt |-> amt,
                    challenge |-> JSONstringify(body),
                    result |-> hashChallenge(amt, JSONstringify(body))]
        /\ UNCHANGED <<config, env, inflight>>

NextWebhook == VerifyPayloadCall \/ HashChallengeCall

SpecWebhook == InitIdle /\ [][NextWebhook]_vars

Verified == last.op = "verifyPayload"

\* C4: verifyPayload returns a boolean for every token, signature and body; it
\* is true exactly when the signature is, character for character, the digest
\* hashChallenge gives for the token and the serialised body, and false for
\* every other signature (an upper-case copy of the digest included).
C4_VerifyIffExactDigest ==
    Verified =>
        /\ last.result \in BOOLEAN
        /\ last.result = TRUE <=>
              \E d \in Digests :
                  /\ d = last.signature
                  /\ d = hashChallenge(last.amt, JSONstringify(last.body))
        /\ (last.signature \notin Digests) => last.result = FALSE

\* A signature that differs from the digest only in letter case is rejected.
C4_Witness ==
    /\ Verified
    /\ last.signature # hashChallenge(last.amt, JSONstringify(last.body))
    /\ last.signature = UpperHex(hashChallenge(last.amt, JSONstringify(last.body)))
    /\ last.result = FALSE

-----------------------------------------------------------------------------
(* The configuration: lib/config (api, version) and the environment.       *)

DefaultApi == "https://api.smartcar.com"
ApiVersions == {"1.0", "2.0"}

ClientIdVar == "SMARTCAR_CLIENT_ID"
ClientSecretVar == "SMARTCAR_CLIENT_SECRET"
ApiOriginVar == "SMARTCAR_API_ORIGIN"

Environments ==
    { a @@ b @@ c :
        a \in OptionalKey(ClientIdVar, {"env-id"}),
        b \in OptionalKey(ClientSecretVar, {"env-secret"}),
        c \in OptionalKey(ApiOriginVar, {"http://localhost"}) }

\* util.getConfig(name) || fallback
getConfigOr(name, fallback) ==
    IF name \in DOMAIN env /\ Truthy(env[name]) THEN env[name] ELSE fallback

\* util.getOrThrowConfig(name): the variable's value, or an error thrown
\* when it is not set.
getOrThrowConfig(name) ==
    IF name \in DOMAIN env /\ Truthy(env[name])
    THEN [threw |-> FALSE, value |-> env[name]]
    ELSE [threw |-> TRUE]

\* util.getUrl(id, endpoint); an argument that is not given is "".
getUrl(id, endpoint) ==
    config.api \o "/v" \o config.version \o "/vehicles"
        \o (IF Truthy(id) THEN "/" \o id ELSE "")
        \o (IF Truthy(endpoint) THEN "/" \o endpoint ELSE "")

NoRequest == [method |-> "none"]

-----------------------------------------------------------------------------
(* The facade calls.  Each operator gives the record of one invocation up  *)
(* to its first await: what it read, whether it threw, and the request it  *)
(* handed to SmartcarService, all computed from config and env as they are *)
(* when the call is made.                                                  *)

getUser(accessToken) ==
    [op |-> "getUser", threw |-> FALSE, envRead |-> {ApiOriginVar},
     versionAtCall |-> config.version, override |-> "",
     request |->
        [method |-> "get",
         baseUrl |-> getConfigOr(ApiOriginVar, config.api),
         auth |-> [bearer |-> accessToken],
         path |-> "/v" \o config.version \o "/user"]]

getVehicles(accessToken, paging) ==
    [op |-> "getVehicles", threw |-> FALSE, envRead |-> {},
     versionAtCall |-> config.version, override |-> "",
     request |->
        [method |-> "get",
         baseUrl |-> getUrl("", ""),
         auth |-> [bearer |-> accessToken],
         qs |-> paging,
         path |-> ""]]

\* country = country || 'US', args holding the optional argument country.
\* A default parameter value would replace only a missing argument.
countryDefaultsOnlyWhenMissing(args) ==
    IF "country" \in DOMAIN args THEN args.country ELSE "US"

countryOrDefault(args) ==
    IF Given(args, "country") THEN args.country ELSE "US"

\* The credentials read with util.getConfig, which does not throw: a missing
\* variable reads as undefined and the call goes on without it.
credentialsUnchecked(options) ==
    LET idFromEnv == ~Given(options, "clientId")
        secretFromEnv == ~Given(options, "clientSecret")
    IN  [threw |-> FALSE,
         envRead |-> (IF idFromEnv THEN {ClientIdVar} ELSE {})
                     \cup (IF secretFromEnv THEN {ClientSecretVar} ELSE {}),
         user |-> IF idFromEnv THEN getConfigOr(ClientIdVar, "") ELSE options.clientId,
         pass |-> IF secretFromEnv THEN getConfigOr(ClientSecretVar, "")
                  ELSE options.clientSecret]

\* options.clientId || util.getOrThrowConfig('SMARTCAR_CLIENT_ID'), then the
\* same for the secret: the environment is read only for a credential the
\* options do not give, and the second lookup only if the first did not throw.
credentials(options) ==
    LET idFromEnv == ~Given(options, "clientId")
        envId == getOrThrowConfig(ClientIdVar)
        idThrew == idFromEnv /\ envId.threw
        secretFromEnv == ~idThrew /\ ~Given(options, "clientSecret")
        envSecret == getOrThrowConfig(ClientSecretVar)
        secretThrew == secretFromEnv /\ envSecret.threw
        threw == idThrew \/ secretThrew
    IN  [threw |-> threw,
         envRead |-> (IF idFromEnv THEN {ClientIdVar} ELSE {})
                     \cup (IF secretFromEnv THEN {ClientSecretVar} ELSE {}),
         user |-> IF threw THEN "" ELSE IF idFromEnv THEN envId.value ELSE options.clientId,
         pass |-> IF threw THEN "" ELSE IF secretFromEnv THEN envSecret.value
                  ELSE options.clientSecret]

getCompatibility(vin, scope, args, options) ==
    LET country == countryOrDefault(args)
        creds == credentials(options)
        override == IF Given(options, "version") THEN options.version ELSE ""
    IN  [op |-> "getCompatibility", vin |-> vin, scope |-> scope, args |-> args,
         options |-> options,
         threw |-> creds.threw,
         envRead |-> creds.envRead \cup (IF creds.threw THEN {} ELSE {ApiOriginVar}),
         versionAtCall |-> config.version, override |-> override,
         request |->
            IF creds.threw THEN NoRequest
            ELSE [method |-> "get",
                  baseUrl |-> getConfigOr(ApiOriginVar, config.api),
                  auth |-> [user |-> creds.user, pass |-> creds.pass],
                  qs |-> buildQueryParams(vin, scope, country, options),
                  path |-> "v" \o (IF Truthy(override) THEN override ELSE config.version)
                               \o "/compatibility"]]

\* What stays of a call while its request is in flight.
Pending(call) ==
    [op |-> call.op, versionAtCall |-> call.versionAtCall, override |-> call.override,
     baseUrl |-> call.request.baseUrl, path |-> call.request.path]

\* The call is made: a call that threw issues no request, any other call's
\* request is in flight until it is settled.
Dispatch(call) ==
    /\ last' = call
    /\ inflight' = IF call.threw THEN inflight ELSE Append(inflight, Pending(call))
    /\ UNCHANGED <<config, env>>

-----------------------------------------------------------------------------
(* Inputs of the facade calls *)

AccessTokens == {"access-token"}
Pagings == {EmptyObject, [limit |-> 1, offset |-> 0]}
ApiScopes == {<<"read_vin", "read_odometer">>}
CountryArgs == OptionalKey("country", {"", "DE"})
ApiOptions ==
    { a @@ b @@ c :
        a \in OptionalKey("clientId", {"", "client-id"}),
        b \in OptionalKey("clientSecret", {"client-secret"}),
        c \in OptionalKey("version", {"1.0"}) }

-----------------------------------------------------------------------------
(* The API facade *)

InitApi ==
    /\ config \in {[api |-> DefaultApi, version |-> v] : v \in ApiVersions}
    /\ env \in Environments
    /\ inflight = <<>>
    /\ last = NoCall

\* The path's version substituted: the text of path with the version that
\* follows its "v" replaced by version.
WithVersion(path, version) ==
    LET slash == IF Len(path) > 0 /\ Head(path) = "/" THEN "/" ELSE ""
        rest == IF slash = "/" THEN Tail(path) ELSE path
        \* rest is "v", a version and the endpoint from its "/" on
        cut == CHOOSE i \in 1..Len(rest) : CharAt(rest, i) = "/"
    IN  IF Len(path) = 0 THEN path
        ELSE slash \o "v" \o version \o SubSeq(rest, cut, Len(rest))

\* A dispatcher that reads config.version when the request is sent rather
\* than when the call is made: a version set meanwhile reaches the requests
\* in flight.
SetApiVersionReachesInflight ==
    \E version \in ApiVersions :
        /\ config' = [config EXCEPT !.version = version]
        /\ last' = [op |-> "setApiVersion", version |-> version]
        /\ inflight' = [i \in 1..Len(inflight) |->
                            [inflight[i] EXCEPT !.path = WithVersion(@, version)]]
        /\ UNCHANGED env

SetApiVersion ==
    \E version \in ApiVersions :
        /\ config' = [config EXCEPT !.version = version]
        /\ last' = [op |-> "setApiVersion", version |-> version]
        /\ UNCHANGED <<env, inflight>>

GetApiVersion ==
    /\ last' = [op |-> "getApiVersion", result |-> config.version]
    /\ UNCHANGED <<config, env, inflight>>

GetUser ==
    \E accessToken \in AccessTokens :
        /\ Len(inflight) < MaxCalls
        /\ Dispatch(getUser(accessToken))

GetVehicles ==
    \E accessToken \in AccessTokens, paging \in Pagings :
        /\ Len(inflight) < MaxCalls
        /\ Dispatch(getVehicles(accessToken, paging))

GetCompatibility ==
    \E vin \in Vins, scope \in ApiScopes, args \in CountryArgs, options \in ApiOptions :
        /\ Len(inflight) < MaxCalls
        /\ Dispatch(getCompatibility(vin, scope, args, options))

\* The response (or failure) of the i-th request in flight arrives and the
\* awaiting call returns.
Settle ==
    \E i \in 1..Len(inflight) :
        /\ inflight' = [j \in 1..(Len(inflight) - 1) |->
                            IF j < i THEN inflight[j] ELSE inflight[j + 1]]
        /\ last' = [op |-> "settled", call |-> inflight[i].op]
        /\ UNCHANGED <<config, env>>

NextApi ==
    \/ SetApiVersion
    \/ GetApiVersion
    \/ GetUser
    \/ GetVehicles
    \/ GetCompatibility
    \/ Settle

SpecApi == InitApi /\ [][NextApi]_vars

-----------------------------------------------------------------------------
(* Properties of the API facade *)

\* The version in a request path: what stands between the "v" that opens the
\* path (after a leading "/", if any) and the next "/".
PathVersion(path) ==
    LET rest == IF Len(path) > 0 /\ Head(path) = "/" THEN Tail(path) ELSE path
        cut == CHOOSE i \in 1..Len(rest) : CharAt(rest, i) = "/"
    IN  SubSeq(rest, 2, cut - 1)

CredentialMissing(options) ==
    \/ ~Given(options, "clientId") /\ ClientIdVar \notin DOMAIN env
    \/ ~Given(options, "clientSecret") /\ ClientSecretVar \notin DOMAIN env

\* C5: a getCompatibility call for which the client id or the client secret is
\* given neither in options nor in the environment throws, hands no request to
\* the dispatcher and leaves the requests in flight as they were; a call given
\* both credentials in options reads neither credential variable of the
\* environment and does not throw.
C5_MissingCredentialsFailBeforeRequest ==
    [][ last'.op = "getCompatibility" =>
          /\ CredentialMissing(last'.options) =>
                /\ last'.threw
                /\ last'.request = NoRequest
                /\ inflight' = inflight
          /\ (Given(last'.options, "clientId") /\ Given(last'.options, "clientSecret")) =>
                /\ ~last'.threw
                /\ last'.envRead \cap {ClientIdVar, ClientSecretVar} = {}
                /\ last'.request.auth = [user |-> last'.options.clientId,
                                         pass |-> last'.options.clientSecret]
      ]_vars

\* The id is given in options, the secret nowhere: the call has thrown and
\* nothing was dispatched.
C5_Witness ==
    /\ last.op = "getCompatibility"
    /\ Given(last.options, "clientId")
    /\ "clientSecret" \notin DOMAIN last.options
    /\ ClientSecretVar \notin DOMAIN env
    /\ last.threw
    /\ inflight = <<>>

\* C6: every request path opens with /v{version}: getUser asks for
\* /v{configured version}/user, getCompatibility for /v{options.version if
\* given, else the configured version}/compatibility, util.getUrl gives base URL
\* + /v{configured version} + /vehicles (+ /{id} + /{endpoint}); after
\* setApiVersion(v) the configured version, and what getApiVersion returns, is v.
C6_PathsOpenWithSlashVersion ==
    /\ last.op = "getUser" =>
          last.request.path = "/v" \o last.versionAtCall \o "/user"
    /\ (last.op = "getCompatibility" /\ ~last.threw) =>
          last.request.path =
              "/v" \o (IF Given(last.options, "version") THEN last.options.version
                       ELSE last.versionAtCall) \o "/compatibility"
    /\ last.op = "getVehicles" =>
          last.request.baseUrl \o last.request.path
              = config.api \o "/v" \o last.versionAtCall \o "/vehicles"
    /\ getUrl("valid-vid", "odometer")
          = config.api \o "/v" \o config.version \o "/vehicles/valid-vid/odometer"
    /\ last.op = "setApiVersion" => config.version = last.version
    /\ last.op = "getApiVersion" => last.result = config.version

\* C7: the country query parameter of a getCompatibility request is "US" when
\* the country argument is missing or empty, and the argument itself otherwise.
C7_CountryDefaultsToUS ==
    (last.op = "getCompatibility" /\ ~last.threw) =>
        /\ "country" \in DOMAIN last.request.qs
        /\ ("country" \notin DOMAIN last.args) => last.request.qs.country = "US"
        /\ ("country" \in DOMAIN last.args /\ last.args.country = "") =>
               last.request.qs.country = "US"
        /\ ("country" \in DOMAIN last.args /\ last.args.country # "") =>
               last.request.qs.country = last.args.country

\* The empty country code was given and the request asks for "US".
C7_Witness ==
    /\ last.op = "getCompatibility"
    /\ ~last.threw
    /\ "country" \in DOMAIN last.args
    /\ last.args.country = ""
    /\ last.request.qs.country = "US"

\* C10: the version in the path of a getUser or getCompatibility request in
\* flight is the one read when the call was made (the configured version of
\* that moment, or the call's own options.version), whatever setApiVersion has
\* done since and whatever the other calls in flight use.
C10_InflightKeepsVersionOfCall ==
    \A i \in 1..Len(inflight) :
        inflight[i].op \in {"getUser", "getCompatibility"} =>
            PathVersion(inflight[i].path) =
                IF Truthy(inflight[i].override) THEN inflight[i].override
                ELSE inflight[i].versionAtCall

\* Two calls in flight that read different configured versions, the first of
\* them no longer the configured one.
C10_Witness ==
    /\ Len(inflight) = 2
    /\ inflight[1].op = "getUser"
    /\ inflight[2].op = "getCompatibility"
    /\ inflight[2].override = ""
    /\ inflight[1].versionAtCall = "1.0"
    /\ inflight[2].versionAtCall = "2.0"
    /\ PathVersion(inflight[1].path) = "1.0"
    /\ PathVersion(inflight[2].path) = "2.0"
    /\ config.version = "2.0"

-----------------------------------------------------------------------------
(* lib/util.get and lib/util.action, the builders behind the vehicle reads *)
(* and commands, and the HTTP server the test suite puts behind them.      *)
(*                                                                         *)
(* util.get(config) gives a function of (options), util.action(config) a   *)
(* function of (argument, options); config is [token, endpoint, vid, key], *)
(* with action for a command, a field that is null being "".  A response   *)
(* body is an object [object |-> o] or a text [text |-> s].                *)

\* The unit system of the previous call kept for the next one.
unitHeaderSticky(options) ==
    IF \/ "imperial" \in DOMAIN options /\ options.imperial
       \/ \E i \in 1..Len(inflight) : inflight[i].headers["smartcar-unit"] = "imperial"
    THEN "imperial" ELSE "metric"

\* The smartcar-unit header of one call, from that call's options alone.
unitHeader(options) ==
    IF "imperial" \in DOMAIN options /\ options.imperial THEN "imperial" ELSE "metric"

utilGet(cfg, options) ==
    [op |-> "get", key |-> cfg.key, options |-> options,
     method |-> "GET",
     url |-> getUrl(cfg.vid, cfg.endpoint),
     auth |-> [bearer |-> cfg.token],
     headers |-> ("smartcar-unit" :> unitHeader(options))]

utilAction(cfg, argument, options) ==
    [op |-> "action", key |-> cfg.key, options |-> options,
     method |-> "POST",
     url |-> getUrl(cfg.vid, cfg.endpoint),
     auth |-> [bearer |-> cfg.token],
     headers |-> ("smartcar-unit" :> unitHeader(options)),
     body |-> IF Truthy(cfg.key)
              THEN ("action" :> cfg.action) @@ (cfg.key :> argument)
              ELSE [action |-> cfg.action]]

\* A returned value says what it is: the value of one property of the body
\* [is |-> "property", value |-> v], the body [is |-> "body", value |-> b], or
\* undefined.
Undefined == [is |-> "undefined"]

\* A read hands back the response body whole, whatever key it was built with.
unwrapNothing(key, body) == [is |-> "body", value |-> body]

\* What a read returns for a response body: the value under key when the read
\* was built with a key, the body otherwise.
unwrap(key, body) ==
    IF Truthy(key)
    THEN IF "object" \in DOMAIN body /\ key \in DOMAIN body.object
         THEN [is |-> "property", value |-> body.object[key]]
         ELSE Undefined
    ELSE [is |-> "body", value |-> body]

\* The interceptors of the suite's setup, in the order they are registered.
VALID_TOKEN == "valid-token"
VALID_VID == "valid-vid"
VALID_ENDPOINT == "valid-endpoint"
VALID_ACTION == "valid-action"
IMPERIAL_DATA == [text |-> "imperial-data"]
SUCCESS == [object |-> [status |-> "success"]]
API_URL == config.api \o "/v" \o config.version

NoReply == [status |-> 0]

NockReply(req) ==
    LET authorized == req.auth = [bearer |-> VALID_TOKEN]
        imperial == req.headers["smartcar-unit"] = "imperial"
        vehicle == API_URL \o "/vehicles/" \o VALID_VID
    IN  IF req.method = "GET" /\ req.url = API_URL \o "/vehicles" /\ authorized
        THEN [status |-> 200, body |-> [object |-> [vehicles |-> <<"fakecar">>]]]
        ELSE IF req.method = "GET" /\ req.url = vehicle \o "/barometer" /\ authorized
        THEN [status |-> 200, body |-> [object |-> [pressure |-> 1000]]]
        ELSE IF req.method = "POST" /\ req.url = vehicle \o "/sunroof" /\ authorized
        THEN [status |-> 200, body |-> SUCCESS]
        ELSE IF req.method = "POST" /\ req.url = vehicle \o "/panic" /\ authorized
        THEN [status |-> 200, body |-> SUCCESS]
        ELSE IF req.method = "POST" /\ req.url = vehicle \o "/" \o VALID_ENDPOINT /\ imperial
        THEN [status |-> 200, body |-> IMPERIAL_DATA]
        ELSE IF req.method = "GET" /\ req.url = vehicle \o "/" \o VALID_ENDPOINT /\ imperial
        THEN [status |-> 200, body |-> IMPERIAL_DATA]
        ELSE NoReply

GetConfigs ==
    { [token |-> VALID_TOKEN, endpoint |-> "", vid |-> "", key |-> ""],
      [token |-> VALID_TOKEN, endpoint |-> "barometer", vid |-> VALID_VID, key |-> "pressure"],
      [token |-> VALID_TOKEN, endpoint |-> "barometer", vid |-> VALID_VID, key |-> ""],
      [token |-> VALID_TOKEN, endpoint |-> VALID_ENDPOINT, vid |-> VALID_VID, key |-> ""] }

ActionConfigs ==
    { [token |-> VALID_TOKEN, endpoint |-> "sunroof", vid |-> VALID_VID,
       action |-> "OPEN", key |-> "percentOpen"],
      [token |-> VALID_TOKEN, endpoint |-> "panic", vid |-> VALID_VID,
       action |-> "START", key |-> ""],
      [token |-> VALID_TOKEN, endpoint |-> VALID_ENDPOINT, vid |-> VALID_VID,
       action |-> VALID_ACTION, key |-> ""] }

Arguments(cfg) == IF Truthy(cfg.key) THEN {"0.5"} ELSE {"fakearg"}

UnitOptions == OptionalKey("imperial", BOOLEAN)

UtilGet ==
    \E cfg \in GetConfigs, options \in UnitOptions :
        /\ Len(inflight) < MaxCalls
        /\ inflight' = Append(inflight, utilGet(cfg, options))
        /\ last' = [op |-> "sent", request |-> utilGet(cfg, options)]
        /\ UNCHANGED <<config, env>>

UtilAction ==
    \E cfg \in ActionConfigs, options \in UnitOptions :
        \E argument \in Arguments(cfg) :
            /\ Len(inflight) < MaxCalls
            /\ inflight' = Append(inflight, utilAction(cfg, argument, options))
            /\ last' = [op |-> "sent", request |-> utilAction(cfg, argument, options)]
            /\ UNCHANGED <<config, env>>

\* The server answers the i-th request in flight and the call returns: a read
\* unwraps the body, a command hands it back; a request no interceptor
\* matches fails.
UtilSettle ==
    \E i \in 1..Len(inflight) :
        LET req == inflight[i]
            reply == NockReply(req)
        IN  /\ inflight' = [j \in 1..(Len(inflight) - 1) |->
                                IF j < i THEN inflight[j] ELSE inflight[j + 1]]
            /\ last' = IF reply = NoReply
                       THEN [op |-> "failed", request |-> req]
                       ELSE [op |-> "returned", request |-> req, reply |-> reply,
                             result |-> IF req.op = "get" THEN unwrap(req.key, reply.body)
                                        ELSE [is |-> "body", value |-> reply.body]]
            /\ UNCHANGED <<config, env>>

NextUtil == UtilGet \/ UtilAction \/ UtilSettle

SpecUtil == InitIdle /\ [][NextUtil]_vars

\* C8: a read built with key k returns the bare value stored under k whenever
\* the response body is an object that has k, and a read built with no key
\* returns the response body whole.
C8_ReadUnwrapsKey ==
    (last.op = "returned" /\ last.request.op = "get") =>
        /\ (Truthy(last.request.key) /\ "object" \in DOMAIN last.reply.body
              /\ last.request.key \in DOMAIN last.reply.body.object) =>
               /\ last.result.is = "property"
               /\ last.result.value = last.reply.body.object[last.request.key]
        /\ ~Truthy(last.request.key) =>
               /\ last.result.is = "body"
               /\ last.result.value = last.reply.body

\* The barometer read built with key pressure has returned the number 1000.
C8_Witness ==
    /\ last.op = "returned"
    /\ last.request.op = "get"
    /\ last.request.key = "pressure"
    /\ last.reply.body = [object |-> [pressure |-> 1000]]
    /\ last.result.is = "property"
    /\ last.result.value = 1000

\* C9: a read or command in flight carries smartcar-unit: imperial exactly when
\* its own call was made with the imperial option, and smartcar-unit: metric
\* otherwise, whatever the calls before it asked for.
C9_UnitHeaderPerCall ==
    \A i \in 1..Len(inflight) :
        inflight[i].headers["smartcar-unit"] =
            IF "imperial" \in DOMAIN inflight[i].options /\ inflight[i].options.imperial
            THEN "imperial" ELSE "metric"

\* An imperial read in flight, and after it a command made without the option
\* that carries the metric header.
C9_Witness ==
    /\ Len(inflight) = 2
    /\ inflight[1].op = "get"
    /\ inflight[1].options = [imperial |-> TRUE]
    /\ inflight[1].headers["smartcar-unit"] = "imperial"
    /\ inflight[2].op = "action"
    /\ inflight[2].options = EmptyObject
    /\ inflight[2].headers["smartcar-unit"] = "metric"

====
